---- MODULE Spec2Model ----
(***************************************************************************)
(* wincnn: derivation of the Cook-Toom / Winograd transforms AT, G, BT, f  *)
(* (src/wincnn.py) and their symbolic verification.                        *)
(*                                                                         *)
(* Scalars are exact numbers as SymPy keeps them: a pair <<p, q>> in       *)
(* lowest terms with q >= 0.  q = 0 is SymPy's result of a division by     *)
(* zero: <<1, 0>> is zoo (ComplexInfinity) and <<0, 0>> is nan.            *)
(* A matrix is a record [err, rows, cols, e]: err is "" for a matrix, and  *)
(* else the name of the exception the builder raised.                      *)
(***************************************************************************)
EXTENDS Integers, Sequences, FiniteSets, TLC

VARIABLES a, n, r, fractionsIn, pc, ret, Y

vars == <<a, n, r, fractionsIn, pc, ret, Y>>

(* ------------------------------ bounds --------------------------------- *)
\* longest sequence of interpolation points drawn for a call
MaxPts == 4
\* largest output size n and filter size r drawn for a call
MaxN == 3

(* ------------------------- exact scalars -------------------------------- *)
Abs(x) == IF x < 0 THEN 0 - x ELSE x

RECURSIVE Gcd(_, _)
Gcd(x, y) == IF y = 0 THEN x ELSE Gcd(y, x % y)

\* sympy.Rational(p, q): lowest terms, positive denominator; p/0 is zoo, 0/0 nan
Rational(p, q) ==
    IF q = 0 THEN (IF p = 0 THEN <<0, 0>> ELSE <<1, 0>>)
    ELSE LET g == Gcd(Abs(p), Abs(q))
             s == IF q < 0 THEN 0 - 1 ELSE 1
         IN  <<(s * p) \div g, (s * q) \div g>>

Zero == <<0, 1>>
One == <<1, 1>>
zoo == <<1, 0>>
nan == <<0, 0>>

QAdd(x, y) == Rational(x[1] * y[2] + y[1] * x[2], x[2] * y[2])
QNeg(x) == Rational(0 - x[1], x[2])
QSub(x, y) == QAdd(x, QNeg(y))
QMul(x, y) == Rational(x[1] * y[1], x[2] * y[2])
QDiv(x, y) == Rational(x[1] * y[2], x[2] * y[1])

RECURSIVE QPow(_, _)
\* x ** j for an exponent j >= 0; x ** 0 is 1, also for x = 0
QPow(x, j) == IF j = 0 THEN One ELSE QMul(x, QPow(x, j - 1))

IsFinite(x) == x[2] # 0
IsInteger(x) == x[2] = 1
IsNegative(x) == x[2] # 0 /\ x[1] < 0

RECURSIVE QSum(_)
\* Add(*vec): the sum of a sequence of scalars
QSum(s) == IF s = <<>> THEN Zero ELSE QAdd(Head(s), QSum(Tail(s)))

(* ----------------------------- matrices -------------------------------- *)
\* a raised exception, in place of the matrix a builder would have returned
Raise(x) == [err |-> x, rows |-> 0, cols |-> 0, e |-> <<>>]

\* Matrix(m, k, lambda i, j: ...): entries is the table the lambda fills, with
\* row i and column j of the source at entries[i + 1][j + 1]; a negative
\* dimension is refused before the lambda is called
Matrix(m, k, entries) ==
    IF m < 0 \/ k < 0 THEN Raise("ValueError")
    ELSE [err |-> "", rows |-> m, cols |-> k, e |-> entries]

zeros(m, k) == Matrix(m, k, [i \in 1..m |-> [j \in 1..k |-> Zero]])

eye(m) == Matrix(m, m, [i \in 1..m |-> [j \in 1..m |-> IF i = j THEN One ELSE Zero]])

\* len(M) == 0: what `if not self` tests in row_insert and col_insert
IsEmpty(M) == M.rows * M.cols = 0

Transpose(M) ==
    IF M.err # "" THEN M
    ELSE [err |-> "", rows |-> M.cols, cols |-> M.rows,
          e |-> [i \in 1..M.cols |-> [j \in 1..M.rows |-> M.e[j][i]]]]

ClampPos(pos, size) ==
    LET p == IF pos < 0 THEN size + pos ELSE pos
    IN  IF p < 0 THEN 0 ELSE IF p > size THEN size ELSE p

\* M.row_insert(pos, other): an empty M gives other back, whatever its shape
row_insert(M, pos, other) ==
    IF M.err # "" THEN M
    ELSE IF other.err # "" THEN other
    ELSE IF IsEmpty(M) THEN other
    ELSE IF M.cols # other.cols THEN Raise("ShapeError")
    ELSE LET p == ClampPos(pos, M.rows)
         IN  [err |-> "", rows |-> M.rows + other.rows, cols |-> M.cols,
              e |-> [i \in 1..(M.rows + other.rows) |->
                       IF i <= p THEN M.e[i]
                       ELSE IF i <= p + other.rows THEN other.e[i - p]
                       ELSE M.e[i - other.rows]]]

\* M.col_insert(pos, other): an empty M gives other back, whatever its shape
col_insert(M, pos, other) ==
    IF M.err # "" THEN M
    ELSE IF other.err # "" THEN other
    ELSE IF IsEmpty(M) THEN other
    ELSE IF M.rows # other.rows THEN Raise("ShapeError")
    ELSE LET p == ClampPos(pos, M.cols)
         IN  [err |-> "", rows |-> M.rows, cols |-> M.cols + other.cols,
              e |-> [i \in 1..M.rows |-> [j \in 1..(M.cols + other.cols) |->
                       IF j <= p THEN M.e[i][j]
                       ELSE IF j <= p + other.cols THEN other.e[i][j - p]
                       ELSE M.e[i][j - other.cols]]]]

\* M * K: the operands are evaluated left to right, then the shapes are checked
MatMul(M, K) ==
    IF M.err # "" THEN M
    ELSE IF K.err # "" THEN K
    ELSE IF M.cols # K.rows THEN Raise("ShapeError")
    ELSE [err |-> "", rows |-> M.rows, cols |-> K.cols,
          e |-> [i \in 1..M.rows |-> [j \in 1..K.cols |->
                   QSum([k \in 1..M.cols |-> QMul(M.e[i][k], K.e[k][j])])]]]

\* M ** (-1) of a diagonal matrix: sympy's pow inverts the diagonal entrywise
\* (0 ** -1 is zoo; no exception is raised for a singular diagonal matrix)
MatInv(M) ==
    IF M.err # "" THEN M
    ELSE Matrix(M.rows, M.cols,
                [i \in 1..M.rows |-> [j \in 1..M.cols |->
                    IF i = j THEN QDiv(One, M.e[i][j]) ELSE Zero]])

\* the entries of a matrix, as a set
Entries(M) == {M.e[i][j] : i \in 1..M.rows, j \in 1..M.cols}

(* ------------------- interpolation-matrix builders ---------------------- *)
\* the lambda indexes a[i] for every row once there is a column to fill
At(pts, m, k) ==
    IF m < 0 \/ k < 0 THEN Raise("ValueError")
    ELSE IF m >= 1 /\ k >= 1 /\ m > Len(pts) THEN Raise("IndexError")
    ELSE Matrix(m, k, [i \in 1..m |-> [j \in 1..k |-> QPow(pts[i], j - 1)]])

\* the row [0, ..., 0, 1] that stands for the point at infinity
UnitRow(k) == Matrix(1, k, [i \in 1..1 |-> [j \in 1..k |-> IF j = k THEN One ELSE Zero]])

A(pts, m, k) == row_insert(At(pts, m - 1, k), m - 1, UnitRow(k))

\* T with the appended column a[i]^m, its negation dropped
T_NotNegated(pts, m) ==
    IF m >= 1 /\ m > Len(pts) THEN Raise("IndexError")
    ELSE col_insert(eye(m), m,
                    Matrix(m, 1, [i \in 1..m |-> [j \in 1..1 |-> QPow(pts[i], m)]]))

T(pts, m) ==
    IF m >= 1 /\ m > Len(pts) THEN Raise("IndexError")
    ELSE col_insert(eye(m), m,
                    Matrix(m, 1, [i \in 1..m |-> [j \in 1..1 |-> QNeg(QPow(pts[i], m))]]))

(* ---------------------- Lagrange/polynomial builders -------------------- *)
\* a polynomial in x is the sequence of its coefficients, x^0 first

\* (x - c) * p, expanded
PolyMulLinear(p, c) ==
    [j \in 1..(Len(p) + 1) |->
        QSub(IF j >= 2 THEN p[j - 1] ELSE Zero,
             IF j <= Len(p) THEN QMul(c, p[j]) ELSE Zero)]

RECURSIVE LxProd(_, _, _)
\* the product of (x - a[k]) over the k < upto other than i (k, i from 0)
LxProd(pts, i, upto) ==
    IF upto = 0 THEN <<One>>
    ELSE IF upto - 1 = i THEN LxProd(pts, i, upto - 1)
    ELSE PolyMulLinear(LxProd(pts, i, upto - 1), pts[upto])

\* expr.coeff(x, j)
Coeff(p, j) == IF j + 1 <= Len(p) THEN p[j + 1] ELSE Zero

\* for m = 1 the product is the Python int 1, which has no expand();
\* for m >= 2 the product indexes a[k] for every k < m
Lx(pts, m) ==
    IF m < 0 THEN Raise("ValueError")
    ELSE IF m = 1 THEN Raise("AttributeError")
    ELSE IF m >= 2 /\ m > Len(pts) THEN Raise("IndexError")
    ELSE Matrix(m, 1, [i \in 1..m |-> [j \in 1..1 |-> LxProd(pts, i - 1, m)]])

RECURSIVE FProd(_, _, _)
\* the product of (a[i] - a[k]) over the k < upto other than i (k, i from 0)
FProd(pts, i, upto) ==
    IF upto = 0 THEN One
    ELSE IF upto - 1 = i THEN FProd(pts, i, upto - 1)
    ELSE QMul(FProd(pts, i, upto - 1), QSub(pts[i + 1], pts[upto]))

\* for m = 1 no point is indexed (k = i yields 1)
F(pts, m) ==
    IF m < 0 THEN Raise("ValueError")
    ELSE IF m >= 2 /\ m > Len(pts) THEN Raise("IndexError")
    ELSE Matrix(m, 1, [i \in 1..m |-> [j \in 1..1 |-> FProd(pts, i - 1, m)]])

\* Fdiag with the products of F taken over range(0, m - 1)
Fdiag_ShortRange(pts, m) ==
    LET f == F(pts, m)
    IN  IF f.err # "" THEN f
        ELSE Matrix(m, m, [i \in 1..m |-> [j \in 1..m |->
                              IF i = j THEN FProd(pts, i - 1, m - 1) ELSE Zero]])

Fdiag(pts, m) ==
    LET f == F(pts, m)
    IN  IF f.err # "" THEN f
        ELSE Matrix(m, m, [i \in 1..m |-> [j \in 1..m |->
                              IF i = j THEN f.e[i][1] ELSE Zero]])

FdiagPlus1(pts, m) ==
    LET f1 == Fdiag(pts, m - 1)
        f2 == col_insert(f1, m - 1, zeros(m - 1, 1))
    IN  row_insert(f2, m - 1, UnitRow(m))

L(pts, m) ==
    LET lx == Lx(pts, m)
        f == F(pts, m)
    IN  IF lx.err # "" THEN lx
        ELSE IF f.err # "" THEN f
        ELSE Transpose(Matrix(m, m, [i \in 1..m |-> [j \in 1..m |->
                          QDiv(Coeff(lx.e[i][1], j - 1), f.e[i][1])]]))

Bt(pts, m) == MatMul(L(pts, m), T(pts, m))

B(pts, m) == row_insert(Bt(pts, m - 1), m - 1, UnitRow(m))

(* --------------------------- transform composer ------------------------- *)
FractionsInG == 0
FractionsInA == 1
FractionsInB == 2
FractionsInF == 3

\* what a call gives back: err is "" and the four matrices are returned, or err
\* names the exception that propagated and nothing is returned
Returned(AT, G, BT, f) == [err |-> "", AT |-> AT, G |-> G, BT |-> BT, f |-> f]
Raised(x) == [err |-> x, AT |-> Raise(x), G |-> Raise(x), BT |-> Raise(x), f |-> Raise(x)]

\* the exception of the first statement that raised, "" if none did
RECURSIVE FirstErr(_)
FirstErr(ms) ==
    IF ms = <<>> THEN ""
    ELSE IF Head(ms).err # "" THEN Head(ms).err
    ELSE FirstErr(Tail(ms))

\* f *= -1, the whole matrix negated in place of its row 0
NegateRow0_AllRows(f) ==
    [f EXCEPT !.e = [i \in 1..f.rows |-> [j \in 1..f.cols |-> QNeg(f.e[i][j])]]]

\* f[0, :] *= -1
NegateRow0(f) ==
    [f EXCEPT !.e = [i \in 1..f.rows |-> [j \in 1..f.cols |->
                        IF i = 1 THEN QNeg(f.e[i][j]) ELSE f.e[i][j]]]]

\* the sign normalization left out
SignNormalize_Skipped(f) == f

\* if f[0, 0] < 0: f[0, :] *= -1
SignNormalize(f) == IF IsNegative(f.e[1][1]) THEN NegateRow0(f) ELSE f

cookToomFilter(pts, nn, rr, policy) ==
    LET alpha == nn + rr - 1
        f0 == FdiagPlus1(pts, alpha)
    IN  IF f0.err # "" THEN Raised(f0.err)
        ELSE
        LET f == SignNormalize(f0)
            ATplain == Transpose(A(pts, alpha, nn))
            ATscaled == MatMul(Transpose(A(pts, alpha, nn)), MatInv(f))
            Gplain == A(pts, alpha, rr)
            Gscaled == Transpose(MatMul(Transpose(A(pts, alpha, rr)), MatInv(f)))
            BTplain == Transpose(B(pts, alpha))
            BTscaled == MatMul(f, Transpose(B(pts, alpha)))
            \* the three assignments of the branch taken, in the order it makes them
            stmts == IF policy = FractionsInG THEN <<ATplain, Gscaled, BTscaled>>
                     ELSE IF policy = FractionsInA THEN <<BTscaled, Gplain, ATscaled>>
                     ELSE IF policy = FractionsInB THEN <<ATplain, Gplain, BTplain>>
                     ELSE <<ATplain, Gplain, BTscaled>>
            AT == IF policy = FractionsInA THEN ATscaled ELSE ATplain
            G == IF policy = FractionsInG THEN Gscaled ELSE Gplain
            BT == IF policy = FractionsInB THEN BTplain ELSE BTscaled
        IN  IF FirstErr(stmts) # "" THEN Raised(FirstErr(stmts))
            ELSE Returned(AT, G, BT, f)

(* --------------------------- symbolic verifiers ------------------------- *)
(* An expression of the verifiers is bilinear in the symbols g[k] and d[l]. *)
(* An expression linear in d (or in g) is the sequence of its coefficients: *)
(* a zero coefficient is an absent term, and the terms present are summed.  *)
(* A bilinear expression is the table c with c[k + 1][l + 1] the            *)
(* coefficient of g[k]*d[l]; simplify() brings an expression to this form,  *)
(* so two expressions are equal exactly when their tables are.              *)
(* The verifiers take whatever matrices they are given.  A matrix entry     *)
(* multiplies a symbol, never a 0: zoo*g[k] stays a term of the sum, and    *)
(* nan*g[k] is nan.  nan absorbs every sum and product, so an expression    *)
(* with a nan term is nan: its table is nan throughout.                     *)

\* some term of a linear expression is nan
HasNan(c) == \E l \in DOMAIN c : c[l] = nan

\* the number of terms of a linear expression
Terms(c) == Cardinality({l \in DOMAIN c : c[l] # Zero})

\* the expression is the single term zoo*symbol, a product with coefficient zoo
ZooTerm(c) == Terms(c) = 1 /\ \E l \in DOMAIN c : c[l] = zoo

\* K * Matrix(m, 1, lambda i, j: base[i]): row i is the sum of K[i, l]*base[l]
SymbolProduct(K, m) ==
    IF K.err # "" THEN K
    ELSE IF K.cols # m THEN Raise("ShapeError")
    ELSE [err |-> "", rows |-> K.rows, cols |-> m,
          e |-> [i \in 1..K.rows |->
                   IF HasNan(K.e[i]) THEN [l \in 1..m |-> nan] ELSE K.e[i]]]

\* the result of a verifier: err as for a matrix, e[i + 1] the table of Y[i]
Verified(m, tables) == [err |-> "", rows |-> m, e |-> tables]
VerifyRaised(x) == [err |-> x, rows |-> 0, e |-> <<>>]

\* how the product u * v of two linear expressions evaluates: "nan" (a nan
\* factor, or 0 times the term zoo*symbol), "zoo" (the coefficient of the
\* product is zoo: a factor is the term zoo*symbol), "" otherwise; a zoo
\* inside a factor that is a sum of terms does not reach the coefficient
ProductKind(u, v) ==
    IF HasNan(u) \/ HasNan(v) THEN "nan"
    ELSE IF (Terms(u) = 0 /\ ZooTerm(v)) \/ (Terms(v) = 0 /\ ZooTerm(u)) THEN "nan"
    ELSE IF Terms(u) = 0 \/ Terms(v) = 0 THEN ""
    ELSE IF ZooTerm(u) \/ ZooTerm(v) THEN "zoo"
    ELSE ""

\* U.multiply_elementwise(V) of two column vectors, U linear in g and V in d;
\* kind[j] is how the product of row j evaluated
multiply_elementwise(U, V) ==
    IF U.err # "" THEN VerifyRaised(U.err)
    ELSE IF V.err # "" THEN VerifyRaised(V.err)
    ELSE IF U.rows # V.rows THEN VerifyRaised("ShapeError")
    ELSE [err |-> "", rows |-> U.rows,
          kind |-> [j \in 1..U.rows |-> ProductKind(U.e[j], V.e[j])],
          e |-> [j \in 1..U.rows |->
                   [k \in 1..U.cols |-> [l \in 1..V.cols |->
                       IF ProductKind(U.e[j], V.e[j]) = "nan" THEN nan
                       ELSE IF U.e[j][k] = Zero \/ V.e[j][l] = Zero THEN Zero
                       ELSE QMul(U.e[j][k], V.e[j][l])]]]]

\* the term K[i, j] * M[j] of row i is nan: a nan factor, 0 times a product
\* with coefficient zoo, or zoo times 0
NanTerm(x, M, j) ==
    \/ x = nan
    \/ M.kind[j] = "nan"
    \/ x = Zero /\ M.kind[j] = "zoo"
    \/ x = zoo /\ \A k \in DOMAIN M.e[j] : \A l \in DOMAIN M.e[j][k] : M.e[j][k][l] = Zero

\* the coefficient of g[k]*d[l] in the sum of the terms K[i, j] * M[j]
SumCoeff(K, M, i, k, l) ==
    QSum([j \in 1..K.cols |->
             IF K.e[i][j] = Zero \/ M.e[j][k][l] = Zero THEN Zero
             ELSE QMul(K.e[i][j], M.e[j][k][l])])

\* simplify(K * M) for a matrix K of scalars and a column vector M of products
\* with gs rows and ds columns to their tables
SimplifyProduct(K, M, gs, ds) ==
    IF K.err # "" THEN VerifyRaised(K.err)
    ELSE IF M.err # "" THEN M
    ELSE IF K.cols # M.rows THEN VerifyRaised("ShapeError")
    ELSE Verified(K.rows, [i \in 1..K.rows |->
             IF \/ \E j \in 1..K.cols : NanTerm(K.e[i][j], M, j)
                \/ \E k \in 1..gs : \E l \in 1..ds : SumCoeff(K, M, i, k, l) = nan
             THEN [k \in 1..gs |-> [l \in 1..ds |-> nan]]
             ELSE [k \in 1..gs |-> [l \in 1..ds |-> SumCoeff(K, M, i, k, l)]]])

filterVerify(nn, rr, AT, G, BT) ==
    LET alpha == nn + rr - 1
        V == SymbolProduct(BT, alpha)
        U == SymbolProduct(G, rr)
        M == multiply_elementwise(U, V)
    IN  IF alpha < 0 \/ rr < 0 THEN VerifyRaised("ValueError")
        ELSE IF V.err # "" THEN VerifyRaised(V.err)
        ELSE SimplifyProduct(AT, M, rr, alpha)

convolutionVerify(nn, rr, Bm, G, Am) ==
    LET V == SymbolProduct(Am, nn)
        U == SymbolProduct(G, rr)
        M == multiply_elementwise(U, V)
    IN  IF nn < 0 \/ rr < 0 THEN VerifyRaised("ValueError")
        ELSE IF V.err # "" THEN VerifyRaised(V.err)
        ELSE SimplifyProduct(Bm, M, rr, nn)

(* ------------------------------ the calls ------------------------------- *)
\* the interpolation points a call may be given
PointSet == {<<0, 1>>, <<1, 1>>, <<0 - 1, 1>>, <<1, 2>>}

RECURSIVE SeqsUpTo(_, _)
SeqsUpTo(S, len) ==
    IF len = 0 THEN {<<>>}
    ELSE LET shorter == SeqsUpTo(S, len - 1)
         IN  shorter \cup {Append(s, x) : s \in {t \in shorter : Len(t) = len - 1}, x \in S}

PointSeqs == SeqsUpTo(PointSet, MaxPts)

Sizes == (0 - 1)..MaxN

Policies == {FractionsInG, FractionsInA, FractionsInB, FractionsInF}

\* the points of the F(4, 3) fixture of the test suite
RefPoints == <<<<0, 1>>, <<1, 1>>, <<0 - 1, 1>>, <<2, 1>>, <<0 - 2, 1>>>>

NotCalled == Raised("NotCalled")
NotVerified == VerifyRaised("NotVerified")

Init ==
    /\ \/ /\ a \in PointSeqs
          /\ n \in Sizes
          /\ r \in Sizes
       \/ /\ a = RefPoints
          /\ n = 4
          /\ r = 3
    /\ fractionsIn \in Policies
    /\ pc = "start"
    /\ ret = NotCalled
    /\ Y = NotVerified

\* a library caller's AT, G, BT, f = cookToomFilter(a, n, r, fractionsIn)
Compose ==
    /\ pc = "start"
    /\ ret' = cookToomFilter(a, n, r, fractionsIn)
    /\ pc' = IF ret'.err = "" THEN "returned" ELSE "raised"
    /\ UNCHANGED <<a, n, r, fractionsIn, Y>>

\* a library caller's Y = filterVerify(n, r, AT, G, BT) on the matrices
\* returned, whatever they hold and whatever the policy was
VerifyFilter ==
    /\ pc = "returned"
    /\ Y' = filterVerify(n, r, ret.AT, ret.G, ret.BT)
    /\ pc' = IF Y'.err = "" THEN "filterVerified" ELSE "verifyRaised"
    /\ UNCHANGED <<a, n, r, fractionsIn, ret>>

\* a library caller's Y = convolutionVerify(n, r, BT.T, G, AT.T)
VerifyConvolution ==
    /\ pc = "returned"
    /\ Y' = convolutionVerify(n, r, Transpose(ret.BT), ret.G, Transpose(ret.AT))
    /\ pc' = IF Y'.err = "" THEN "convolutionVerified" ELSE "verifyRaised"
    /\ UNCHANGED <<a, n, r, fractionsIn, ret>>

\* the call, then filterVerify unless fractionsIn is FractionsInF; what is
\* printed is no part of the state
showCookToomFilter ==
    /\ pc = "start"
    /\ ret' = cookToomFilter(a, n, r, fractionsIn)
    /\ Y' = IF ret'.err = "" /\ fractionsIn # FractionsInF
            THEN filterVerify(n, r, ret'.AT, ret'.G, ret'.BT)
            ELSE NotVerified
    /\ pc' = IF ret'.err # "" THEN "raised"
             ELSE IF Y'.err \notin {"", NotVerified.err} THEN "verifyRaised"
             ELSE "filterShown"
    /\ UNCHANGED <<a, n, r, fractionsIn>>

\* the call, then convolutionVerify of the transposes unless fractionsIn is
\* FractionsInF
showCookToomConvolution ==
    /\ pc = "start"
    /\ ret' = cookToomFilter(a, n, r, fractionsIn)
    /\ Y' = IF ret'.err = "" /\ fractionsIn # FractionsInF
            THEN convolutionVerify(n, r, Transpose(ret'.BT), ret'.G, Transpose(ret'.AT))
            ELSE NotVerified
    /\ pc' = IF ret'.err # "" THEN "raised"
             ELSE IF Y'.err \notin {"", NotVerified.err} THEN "verifyRaised"
             ELSE "convolutionShown"
    /\ UNCHANGED <<a, n, r, fractionsIn>>

Next ==
    \/ Compose
    \/ VerifyFilter
    \/ VerifyConvolution
    \/ showCookToomFilter
    \/ showCookToomConvolution

Spec == Init /\ [][Next]_vars

(* ======================= properties of the calls ======================== *)
Distinct(pts) == \A i, j \in 1..Len(pts) : i # j => pts[i] # pts[j]

\* two of the points the call uses (the first n + r - 2) are equal
UsedPointsRepeat ==
    \E i, j \in 1..(n + r - 2) : i < j /\ j <= Len(a) /\ a[i] = a[j]

IntegerPoints(pts) == \A i \in 1..Len(pts) : IsInteger(pts[i])

\* n, r >= 1 and at least n + r - 2 pairwise distinct points
ValidInput == n >= 1 /\ r >= 1 /\ Len(a) >= n + r - 2 /\ Distinct(a)

\* n, r >= 1 and exactly n + r - 2 pairwise distinct points
ExactInput == n >= 1 /\ r >= 1 /\ Len(a) = n + r - 2 /\ Distinct(a)

Called == pc # "start"

\* filterVerify has run on the matrices returned and Y is its result
FilterVerified == pc \in {"filterVerified", "filterShown"} /\ Y # NotVerified

\* convolutionVerify has run on the transposes and Y is its result
ConvolutionVerified == pc \in {"convolutionVerified", "convolutionShown"} /\ Y # NotVerified

\* every expression of Y is nan
AllNan(res) ==
    \A i \in 1..res.rows : \A k \in DOMAIN res.e[i] : \A l \in DOMAIN res.e[i][k] :
        res.e[i][k][l] = nan

\* y[i] = sum over k of d[i + k] * g[k], i = 0..n-1, as tables
DirectConvolution(nn, rr) ==
    Verified(nn, [i \in 1..nn |-> [k \in 1..rr |-> [l \in 1..(nn + rr - 1) |->
                     IF l - 1 = (i - 1) + (k - 1) THEN One ELSE Zero]]])

\* y[i] = sum over j + k = i of d[j] * g[k], i = 0..n+r-2, as tables
LinearConvolution(nn, rr) ==
    Verified(nn + rr - 1, [i \in 1..(nn + rr - 1) |-> [k \in 1..rr |-> [l \in 1..nn |->
                     IF (l - 1) + (k - 1) = i - 1 THEN One ELSE Zero]]])

\* the one way a call on valid input fails: Lx(a, 1) when n + r = 3
RaisesOnlyForAlpha2 ==
    pc = "raised" => (n + r = 3 /\ ret.err = "AttributeError")

(* C1: for every n, r >= 1, every sequence of n + r - 2 pairwise distinct   *)
(* points and each policy FractionsInG, FractionsInA, FractionsInB, the     *)
(* call returns matrices and filterVerify of them is the direct convolution *)
C1_FilterIdentity ==
    (ExactInput /\ fractionsIn # FractionsInF) =>
        /\ pc # "raised"
        /\ FilterVerified => Y = DirectConvolution(n, r)

(* C1, what the code does keep: on such input the call raises only when     *)
(* n + r = 3, and whenever it returns the filter identity holds             *)
C1_IdentityWhereReturned ==
    (ExactInput /\ fractionsIn # FractionsInF) =>
        /\ RaisesOnlyForAlpha2
        /\ n + r # 3 => pc # "raised"
        /\ FilterVerified => Y = DirectConvolution(n, r)

(* C2 as stated: for any valid (points, n, r, policy), all four policies    *)
(* included, filterVerify of the returned matrices is the direct convolution *)
C2_AllPoliciesIdentity ==
    (ValidInput /\ FilterVerified) => Y = DirectConvolution(n, r)

(* C2 as amended: for any valid (points, n, r, policy), filterVerify of the  *)
(* matrices the call returned is the direct convolution under the policies  *)
(* FractionsInG, FractionsInA and FractionsInB, and under FractionsInF      *)
(* exactly when the returned f is the identity matrix                       *)
C2_IdentityUnlessUnscaled ==
    (ValidInput /\ FilterVerified) =>
        (Y = DirectConvolution(n, r)
           <=> (fractionsIn # FractionsInF \/ ret.f = eye(n + r - 1)))

C2_Witness ==
    /\ ValidInput
    /\ pc = "filterVerified"
    /\ fractionsIn = FractionsInF
    /\ ret.f # eye(n + r - 1)
    /\ Y # DirectConvolution(n, r)

(* C3: for every n, r >= 1 and every sequence of n + r - 2 pairwise         *)
(* distinct points, the default policy returns matrices and                 *)
(* convolutionVerify(n, r, BT.T, G, AT.T) has length n + r - 1 and is the   *)
(* full linear convolution                                                  *)
C3_LinearConvolution ==
    (ExactInput /\ fractionsIn = FractionsInG) =>
        /\ pc # "raised"
        /\ ConvolutionVerified =>
              (Y.rows = n + r - 1 /\ Y = LinearConvolution(n, r))

(* C3, what the code does keep: the same, wherever the call returns         *)
C3_ConvolutionWhereReturned ==
    (ExactInput /\ fractionsIn = FractionsInG) =>
        /\ RaisesOnlyForAlpha2
        /\ ConvolutionVerified =>
              (Y.rows = n + r - 1 /\ Y = LinearConvolution(n, r))

\* a table of integers, as a table of scalars
IntTable(t) == [i \in 1..Len(t) |-> [j \in 1..Len(t[i]) |-> <<t[i][j], 1>>]]

\* the points (0, 1, -1) of the F(2, 3) fixture
F23Points == <<<<0, 1>>, <<1, 1>>, <<0 - 1, 1>>>>

\* expected_AT, expected_G, expected_BT of test_f2x3_filter
F23AT == IntTable(<< <<1, 1, 1, 0>>,
                     <<0, 1, 0 - 1, 1>> >>)
F23G == << <<<<1, 1>>, <<0, 1>>, <<0, 1>>>>,
           <<<<1, 2>>, <<1, 2>>, <<1, 2>>>>,
           <<<<1, 2>>, <<0 - 1, 2>>, <<1, 2>>>>,
           <<<<0, 1>>, <<0, 1>>, <<1, 1>>>> >>
F23BT == IntTable(<< <<1, 0, 0 - 1, 0>>,
                     <<0, 1, 1, 0>>,
                     <<0, 0 - 1, 1, 0>>,
                     <<0, 0 - 1, 0, 1>> >>)

\* expected_AT, expected_G, expected_BT of test_f4x3_filter
F43AT == IntTable(<< <<1, 1, 1, 1, 1, 0>>,
                     <<0, 1, 0 - 1, 2, 0 - 2, 0>>,
                     <<0, 1, 1, 4, 4, 0>>,
                     <<0, 1, 0 - 1, 8, 0 - 8, 1>> >>)
F43G == << <<<<1, 4>>, <<0, 1>>, <<0, 1>>>>,
           <<<<0 - 1, 6>>, <<0 - 1, 6>>, <<0 - 1, 6>>>>,
           <<<<0 - 1, 6>>, <<1, 6>>, <<0 - 1, 6>>>>,
           <<<<1, 24>>, <<1, 12>>, <<1, 6>>>>,
           <<<<1, 24>>, <<0 - 1, 12>>, <<1, 6>>>>,
           <<<<0, 1>>, <<0, 1>>, <<1, 1>>>> >>
F43BT == IntTable(<< <<4, 0, 0 - 5, 0, 1, 0>>,
                     <<0, 0 - 4, 0 - 4, 1, 1, 0>>,
                     <<0, 4, 0 - 4, 0 - 1, 1, 0>>,
                     <<0, 0 - 2, 0 - 1, 2, 1, 0>>,
                     <<0, 2, 0 - 1, 0 - 2, 1, 0>>,
                     <<0, 4, 0, 0 - 5, 0, 1>> >>)

\* AT[i][j] = points[j]^i for j < alpha - 1, and the last column is zero
\* but for a 1 in row n - 1
ATShape(res) ==
    /\ res.AT.rows = n /\ res.AT.cols = n + r - 1
    /\ \A i \in 1..n : \A j \in 1..(n + r - 1) :
          res.AT.e[i][j] = IF j < n + r - 1 THEN QPow(a[j], i - 1)
                           ELSE IF i = n THEN One ELSE Zero

\* G row j = points[j]^k / f[j][j] for j < alpha - 1, and the last row is
\* [0, ..., 0, 1]
GShape(res) ==
    /\ res.G.rows = n + r - 1 /\ res.G.cols = r
    /\ \A j \in 1..(n + r - 1) : \A k \in 1..r :
          res.G.e[j][k] = IF j < n + r - 1
                          THEN QDiv(QPow(a[j], k - 1), res.f.e[j][j])
                          ELSE IF k = r THEN One ELSE Zero

(* C4: under the default policy the call reproduces the reference matrices  *)
(* of the F(2, 3) and F(4, 3) fixtures, and whenever it returns for         *)
(* n, r >= 1, AT is the augmented Vandermonde matrix of the points and G    *)
(* the same for r columns with row j divided by f[j][j]                     *)
C4_ReferenceMatrices ==
    (Called /\ fractionsIn = FractionsInG) =>
        /\ (a = F23Points /\ n = 2 /\ r = 3) =>
              /\ ret.err = ""
              /\ ret.AT.e = F23AT /\ ret.G.e = F23G /\ ret.BT.e = F23BT
        /\ (a = RefPoints /\ n = 4 /\ r = 3) =>
              /\ ret.err = ""
              /\ ret.AT.e = F43AT /\ ret.G.e = F43G /\ ret.BT.e = F43BT
        /\ (ret.err = "" /\ n >= 1 /\ r >= 1) => (ATShape(ret) /\ GShape(ret))

C4_Witness ==
    /\ pc = "returned" /\ fractionsIn = FractionsInG
    /\ a = RefPoints /\ n = 4 /\ r = 3
    /\ ret.G.e[1][1] = <<1, 4>>
    /\ ret.BT.e[6] = <<<<0, 1>>, <<4, 1>>, <<0, 1>>, <<0 - 5, 1>>, <<0, 1>>, <<1, 1>>>>

\* the raw Lagrange denominator of point j (from 0) of a call
RawScale(j) == FProd(a, j, n + r - 2)

(* C5: whenever the call returns on valid input, under any policy, f[0][0]  *)
(* is >= 0 (the absolute value of the raw Lagrange denominator of point 0), *)
(* every other diagonal entry is the raw denominator of its point, sign     *)
(* kept, and the last diagonal entry is 1                                   *)
C5_SignNormalized ==
    (ValidInput /\ ret.err = "") =>
        LET alpha == n + r - 1
        IN  /\ ret.f.rows = alpha /\ ret.f.cols = alpha
            /\ ~IsNegative(ret.f.e[1][1]) /\ IsFinite(ret.f.e[1][1])
            /\ alpha >= 2 =>
                  ret.f.e[1][1] = (IF IsNegative(RawScale(0))
                                   THEN QNeg(RawScale(0)) ELSE RawScale(0))
            /\ \A j \in 2..(alpha - 1) : ret.f.e[j][j] = RawScale(j - 1)
            /\ ret.f.e[alpha][alpha] = One

\* the raw denominator of point 0 is negative and was negated, and another
\* point's negative denominator was left as it is
C5_Witness ==
    /\ ValidInput /\ pc = "returned"
    /\ n + r - 1 >= 3
    /\ IsNegative(RawScale(0))
    /\ ret.f.e[1][1] = QNeg(RawScale(0))
    /\ \E j \in 2..(n + r - 2) : IsNegative(ret.f.e[j][j])

(* C6: when two of the points a call uses are equal the call raises (an     *)
(* error of the singular-matrix / division-by-zero class), under every      *)
(* policy; it never returns matrices                                        *)
C6_RepeatedPointsRaise ==
    (n >= 1 /\ r >= 1 /\ Len(a) >= n + r - 2 /\ UsedPointsRepeat /\ Called) =>
        pc = "raised"

(* C6, what the code does instead: under every policy such a call returns,  *)
(* with zoo or nan among the entries of BT, and filterVerify of the         *)
(* returned matrices runs and gives nan for every output, convolutionVerify *)
(* nan for every output but possibly the last                               *)
C6_RepeatedPointsReturnNonFinite ==
    (n >= 1 /\ r >= 1 /\ Len(a) >= n + r - 2 /\ UsedPointsRepeat /\ Called) =>
        /\ ret.err = ""
        /\ pc # "verifyRaised"
        /\ \E x \in Entries(ret.BT) : ~IsFinite(x)
        /\ FilterVerified => AllNan(Y)
        /\ ConvolutionVerified =>
              /\ Y.rows = n + r - 1
              /\ \A i \in 1..(n + r - 2) : \A k \in 1..r : \A l \in 1..n :
                    Y.e[i][k][l] = nan

(* C7: for every n, r >= 1 and every policy, a call with fewer than         *)
(* n + r - 2 points raises IndexError, and a call with exactly n + r - 2    *)
(* points does not raise IndexError                                         *)
C7_TooFewPointsIndexError ==
    (n >= 1 /\ r >= 1 /\ Called) =>
        /\ Len(a) < n + r - 2 => (pc = "raised" /\ ret.err = "IndexError")
        /\ Len(a) = n + r - 2 => ret.err # "IndexError"

(* C7, what the code does keep: the same but for n + r = 3 under            *)
(* FractionsInA, where BT is built first and Lx(a, 1) raises AttributeError *)
(* before any point is indexed                                              *)
C7_IndexErrorButAlpha2 ==
    (n >= 1 /\ r >= 1 /\ Called) =>
        /\ Len(a) < n + r - 2 =>
              /\ pc = "raised"
              /\ ret.err = (IF n + r = 3 /\ fractionsIn = FractionsInA
                            THEN "AttributeError" ELSE "IndexError")
        /\ Len(a) = n + r - 2 => ret.err # "IndexError"

(* C8: a call with n <= 0 or r <= 0 raises, for any points and any policy;  *)
(* it never returns a tuple of matrices                                     *)
C8_NonPositiveSizesRaise ==
    ((n <= 0 \/ r <= 0) /\ Called) => pc = "raised"

(* C8, what the code does keep: a call with n < 0, r < 0 or n + r <= 1      *)
(* raises ValueError                                                        *)
C8_NegativeSizesRaise ==
    ((n < 0 \/ r < 0 \/ n + r <= 1) /\ Called) =>
        (pc = "raised" /\ ret.err = "ValueError")

(* C9: for n, r >= 1 and n + r - 2 pairwise distinct integer points, a      *)
(* returned matrix holds a non-integer entry only if the policy names it:   *)
(* G under FractionsInG, AT under FractionsInA, BT under FractionsInB, none *)
(* of the three under FractionsInF                                          *)
C9_FractionPlacement ==
    (ExactInput /\ IntegerPoints(a) /\ ret.err = "") =>
        /\ fractionsIn # FractionsInA => \A x \in Entries(ret.AT) : IsInteger(x)
        /\ fractionsIn # FractionsInG => \A x \in Entries(ret.G) : IsInteger(x)
        /\ fractionsIn # FractionsInB => \A x \in Entries(ret.BT) : IsInteger(x)

\* integer points, and the filter transform of the default policy does hold
\* a fraction while AT and BT do not
C9_Witness ==
    /\ ExactInput /\ IntegerPoints(a) /\ pc = "returned"
    /\ fractionsIn = FractionsInG
    /\ \E x \in Entries(ret.G) : IsFinite(x) /\ ~IsInteger(x)
    /\ \A x \in Entries(ret.AT) \cup Entries(ret.BT) : IsInteger(x)

\* f is an alpha x alpha diagonal matrix with no zero on its diagonal
InvertibleDiagonal(f, alpha) ==
    /\ f.err = "" /\ f.rows = alpha /\ f.cols = alpha
    /\ \A i, j \in 1..alpha :
          IF i = j THEN IsFinite(f.e[i][j]) /\ f.e[i][j] # Zero
          ELSE f.e[i][j] = Zero

(* C10: for every n, r >= 1 and every sequence of n + r - 2 pairwise        *)
(* distinct points the FractionsInF call returns, its f is an invertible    *)
(* diagonal alpha x alpha matrix, AT * f^-1 * ((G*g) . (BT*d)) is the       *)
(* direct convolution, and the default policy returns the same AT, BT and f *)
(* with G = f^-1 * G_F                                                      *)
C10_ScaleFactor ==
    (ExactInput /\ fractionsIn = FractionsInF /\ Called) =>
        LET inG == cookToomFilter(a, n, r, FractionsInG)
        IN  /\ ret.err = ""
            /\ InvertibleDiagonal(ret.f, n + r - 1)
            /\ filterVerify(n, r, MatMul(ret.AT, MatInv(ret.f)), ret.G, ret.BT)
                  = DirectConvolution(n, r)
            /\ inG.err = ""
            /\ inG.AT = ret.AT /\ inG.BT = ret.BT /\ inG.f = ret.f
            /\ inG.G = MatMul(MatInv(ret.f), ret.G)

(* C10, what the code does keep: the same, wherever the call returns, and   *)
(* it raises only when n + r = 3                                            *)
C10_ScaleFactorWhereReturned ==
    (ExactInput /\ fractionsIn = FractionsInF /\ Called) =>
        LET inG == cookToomFilter(a, n, r, FractionsInG)
        IN  /\ RaisesOnlyForAlpha2
            /\ ret.err = "" =>
                  /\ InvertibleDiagonal(ret.f, n + r - 1)
                  /\ filterVerify(n, r, MatMul(ret.AT, MatInv(ret.f)), ret.G, ret.BT)
                        = DirectConvolution(n, r)
                  /\ inG.err = ""
                  /\ inG.AT = ret.AT /\ inG.BT = ret.BT /\ inG.f = ret.f
                  /\ inG.G = MatMul(MatInv(ret.f), ret.G)

====
